---------------------------- MODULE Spec2Model ----------------------------
(***************************************************************************)
(* A model of the news-curation pipeline: fetch_articles.py (the three     *)
(* source adapters, the time-window filter, the deduplicator, the batch    *)
(* writer), select_articles.py (selection stage) and post_to_slack.py      *)
(* (posting stage).                                                        *)
(*                                                                         *)
(* Conventions.                                                            *)
(*  - Time is counted in whole hours.  A published_date string is a record *)
(*    [kind, local, off]: kind is the shape of the string (key "missing",  *)
(*    "empty", free "text", ISO "naive", ISO with a trailing "Z", ISO with *)
(*    a numeric "offset"), local the wall-clock hour it spells, off the    *)
(*    offset it spells.  Field values are strings, as the Article schema   *)
(*    has them.                                                            *)
(*  - A text is a sequence of chunks [src, len]: the first len characters  *)
(*    of a named source text.  A summary is counted as [text, tags]: its   *)
(*    characters of text and of markup.                                    *)
(*  - An exception is the name of its class; a function that may raise     *)
(*    returns a record with a field exc.                                   *)
(*  - The stages are separate processes, run one at a time in the order of *)
(*    the pipeline, each at most once; a later stage may start without the *)
(*    earlier ones.  A finished process leaves its exit status until the   *)
(*    next one starts, and the files it wrote.  Writing a file succeeds.   *)
(*  - SpecFilter and SpecDedup call filter_recent_articles and             *)
(*    deduplicate_articles on lists the caller builds; SpecFetch runs the  *)
(*    fetch stage alone; Spec runs the three stages.                       *)
(***************************************************************************)
EXTENDS Integers, Sequences, FiniteSets, TLC

VARIABLES
    fnPc,        \* position of the function-level harness
    fnArticles,  \* the list handed to filter_recent_articles / deduplicate_articles
    fnHours,     \* the hours argument
    fnNow,       \* datetime.now(timezone.utc) at the call
    fnOut,       \* what the call returned
    fnOut2,      \* what a second call on fnOut returned
    fetch,       \* fetch_articles.py: position, exit status and locals of main
    select,      \* select_articles.py: position, exit status and locals of main
    post,        \* post_to_slack.py: position, exit status and locals of main
    invoked,     \* the environment and arguments each stage was started with
    files,       \* the two files the stages hand over: the batch and the selection
    net,         \* per stage, the number of network requests issued
    writes,      \* per stage, the number of files opened for writing
    sent,        \* the texts posted to the webhook, in order
    quota        \* how many articles the upstream units hold in this run

fnVars == <<fnPc, fnArticles, fnHours, fnNow, fnOut, fnOut2>>
pipeVars == <<fetch, select, post, invoked, files, net, writes, sent, quota>>

vars == <<fnVars, pipeVars>>

-----------------------------------------------------------------------------
(* Bounds *)

MaxDedupLen == 5
MaxFilterLen == 2
ClockNow == 500
\* the most articles the upstream units hold in a run of the fetch stage alone, in
\* a run of the three stages, and the most entries of one response
MaxFetched == 3
MaxPipelineFetched == 1
MaxItems == 2

-----------------------------------------------------------------------------
(* Python values *)

\* dict.get(key, default) on a dict that has no such key
MissingKey == "<missing>"

NoException == "none"

\* issubclass(exc, cls) for the exception classes the three files name
BaseOf(cls) ==
    CASE cls \in {"HTTPError", "ConnectionError"} -> "RequestException"
      [] cls = "RequestException" -> "OSError"
      [] cls \in {"JSONDecodeError", "UnicodeDecodeError"} -> "ValueError"
      [] cls \in {"ValueError", "OSError", "AttributeError", "TypeError", "APIError"} -> "Exception"
      [] cls \in {"Exception", "SystemExit"} -> "BaseException"
      [] OTHER -> "object"

RECURSIVE IsSubclass(_, _)
IsSubclass(exc, cls) ==
    IF exc = cls THEN TRUE
    ELSE IF BaseOf(exc) = "object" THEN FALSE
    ELSE IsSubclass(BaseOf(exc), cls)

-----------------------------------------------------------------------------
(* published_date strings *)

PubDate(kind, local, off) == [kind |-> kind, local |-> local, off |-> off]

MissingDate == PubDate("missing", 0, 0)
EmptyDate == PubDate("empty", 0, 0)
TextDate == PubDate("text", 0, 0)

\* article.get("published_date", "")
GetPublishedDate(article) ==
    IF article.published_date.kind = "missing" THEN EmptyDate ELSE article.published_date

\* article.get("url", "")
GetUrl(article) == IF article.url = MissingKey THEN "" ELSE article.url

\* pub_date_str.replace("Z", "+00:00")
ReplaceZ(d) == IF d.kind = "Z" THEN PubDate("offset", d.local, 0) ELSE d

\* datetime.fromisoformat: a naive or aware datetime, or ValueError
fromisoformat(d) ==
    CASE d.kind = "naive" -> [exc |-> NoException, aware |-> FALSE, local |-> d.local, off |-> 0]
      [] d.kind = "offset" -> [exc |-> NoException, aware |-> TRUE, local |-> d.local, off |-> d.off]
      [] OTHER -> [exc |-> "ValueError", aware |-> FALSE, local |-> 0, off |-> 0]

\* pub_date.replace(tzinfo=timezone.utc) when pub_date.tzinfo is None
AssumeUtc(dt) == IF dt.aware THEN dt ELSE [dt EXCEPT !.aware = TRUE, !.off = 0]

\* the instant of an aware datetime, in hours of UTC
UtcInstant(dt) == dt.local - dt.off

\* a comparison written > instead of >=
NotBeforeCutoff_strict(dt, cutoff) == (dt.local - dt.off) > cutoff

\* pub_date >= cutoff, both aware
NotBeforeCutoff(dt, cutoff) == UtcInstant(dt) >= cutoff

-----------------------------------------------------------------------------
(* filter_recent_articles *)

\* a fail-closed loop body: a date that is absent or does not parse drops the article
FilterStep_failClosed(filtered, article, cutoff) ==
    LET parsed == fromisoformat(ReplaceZ(GetPublishedDate(article))) IN
    IF parsed.exc = NoException /\ NotBeforeCutoff(AssumeUtc(parsed), cutoff)
    THEN [exc |-> NoException, filtered |-> Append(filtered, article)]
    ELSE [exc |-> NoException, filtered |-> filtered]

\* a loop body that stores the article with its date string rewritten
FilterStep_normalise(filtered, article, cutoff) ==
    LET pub_date_str == GetPublishedDate(article)
        parsed == fromisoformat(ReplaceZ(pub_date_str))
        stored == [article EXCEPT !.published_date = ReplaceZ(pub_date_str)] IN
    IF pub_date_str.kind = "empty" \/ parsed.exc # NoException
       \/ NotBeforeCutoff(AssumeUtc(parsed), cutoff)
    THEN [exc |-> NoException, filtered |-> Append(filtered, stored)]
    ELSE [exc |-> NoException, filtered |-> filtered]

\* the body of the for loop for one article: the list after it, or the exception
\* that leaves the function
FilterStep(filtered, article, cutoff) ==
    LET pub_date_str == GetPublishedDate(article) IN
    IF pub_date_str.kind = "empty"
    THEN [exc |-> NoException, filtered |-> Append(filtered, article)]
    ELSE LET parsed == fromisoformat(ReplaceZ(pub_date_str)) IN
         IF parsed.exc # NoException
         THEN IF IsSubclass(parsed.exc, "ValueError")
              THEN [exc |-> NoException, filtered |-> Append(filtered, article)]
              ELSE [exc |-> parsed.exc, filtered |-> filtered]
         ELSE IF NotBeforeCutoff(AssumeUtc(parsed), cutoff)
              THEN [exc |-> NoException, filtered |-> Append(filtered, article)]
              ELSE [exc |-> NoException, filtered |-> filtered]

RECURSIVE FilterLoop(_, _, _, _)
FilterLoop(articles, i, cutoff, filtered) ==
    IF i > Len(articles)
    THEN [exc |-> NoException, ret |-> filtered]
    ELSE LET r == FilterStep(filtered, articles[i], cutoff) IN
         IF r.exc # NoException
         THEN [exc |-> r.exc, ret |-> <<>>]
         ELSE FilterLoop(articles, i + 1, cutoff, r.filtered)

\* [exc, ret]: the exception raised to the caller (NoException if none) and the
\* returned list
filter_recent_articles(articles, hours, now) ==
    FilterLoop(articles, 1, now - hours, <<>>)

-----------------------------------------------------------------------------
(* deduplicate_articles *)

\* a loop that never records the url it has just kept
RECURSIVE DedupLoop_noAdd(_, _, _, _)
DedupLoop_noAdd(articles, i, seen_urls, unique) ==
    IF i > Len(articles)
    THEN unique
    ELSE LET url == IF articles[i].url = MissingKey THEN "" ELSE articles[i].url IN
         IF url # "" /\ url \notin seen_urls
         THEN DedupLoop_noAdd(articles, i + 1, seen_urls, Append(unique, articles[i]))
         ELSE DedupLoop_noAdd(articles, i + 1, seen_urls, unique)

RECURSIVE DedupLoop(_, _, _, _)
DedupLoop(articles, i, seen_urls, unique) ==
    IF i > Len(articles)
    THEN unique
    ELSE LET url == GetUrl(articles[i]) IN
         IF url # "" /\ url \notin seen_urls
         THEN DedupLoop(articles, i + 1, seen_urls \cup {url}, Append(unique, articles[i]))
         ELSE DedupLoop(articles, i + 1, seen_urls, unique)

\* a loop that starts at the second article
deduplicate_articles_skipFirst(articles) == DedupLoop(articles, 2, {}, <<>>)

deduplicate_articles(articles) == DedupLoop(articles, 1, {}, <<>>)

-----------------------------------------------------------------------------
(* Articles *)

Article(source, section, title, abstract, url, published_date) ==
    [source |-> source, section |-> section, title |-> title, abstract |-> abstract,
     url |-> url, published_date |-> published_date]

DEFAULT_HOURS == 48

-----------------------------------------------------------------------------
(* Process environment and exit *)

\* os.environ.get(name) of a variable that is not set
None == "<None>"
EnvValues == {None, "", "k"}

\* a mistaken check: `is None` in place of `not value`
Falsy_noneOnly(value) == value = None

\* `not value` for a string or None
Falsy(value) == value = None \/ value = ""

NotExited == 0 - 1

-----------------------------------------------------------------------------
(* fetch_articles.py: upstream responses *)

NYT_SECTIONS == <<"technology", "business", "world">>

\* the feed URLs, as their host and path words
BLOOMBERG_FEEDS ==
    << <<"feeds", "bloomberg", "com", "markets", "news", "rss">>,
       <<"feeds", "bloomberg", "com", "technology", "news", "rss">>,
       <<"feeds", "bloomberg", "com", "politics", "news", "rss">> >>

GUARDIAN_FEEDS ==
    << <<"www", "theguardian", "com", "world", "rss">>,
       <<"www", "theguardian", "com", "business", "rss">>,
       <<"www", "theguardian", "com", "technology", "rss">> >>

\* `word in url`
Contains(url, word) == \E i \in 1..Len(url) : url[i] = word

_extract_guardian_section(url) ==
    IF Contains(url, "world") THEN "world"
    ELSE IF Contains(url, "business") THEN "business"
    ELSE IF Contains(url, "technology") THEN "technology"
    ELSE "general"

_extract_section_from_url(url) ==
    IF Contains(url, "markets") THEN "markets"
    ELSE IF Contains(url, "technology") THEN "technology"
    ELSE IF Contains(url, "politics") THEN "politics"
    ELSE "general"

\* a summary: the number of characters of text and of markup in it
Summary(text, tags) == [text |-> text, tags |-> tags]
NoSummary == Summary(0, 0)
HtmlSummary == Summary(11, 14)     \* <p>Hello <b>world</b></p>
LongSummary == Summary(600, 0)

ABSTRACT_MAX == 500

\* re.sub(r'<[^>]+>', '', abstract)
StripTags(abstract) == Summary(abstract.text, 0)

\* abstract[:500] if len(abstract) > 500 else abstract, on a summary without markup
Truncate(abstract) ==
    IF abstract.text + abstract.tags > ABSTRACT_MAX
    THEN Summary(ABSTRACT_MAX, 0)
    ELSE abstract

\* one element of the "results" array: a JSON object with some of the four keys,
\* or a JSON value that is not an object
NytItem(title, abstract, url, published_date) ==
    [object |-> TRUE, title |-> title, abstract |-> abstract, url |-> url,
     published_date |-> published_date]
NotAnObject == [object |-> FALSE, title |-> "", abstract |-> NoSummary, url |-> "",
                published_date |-> EmptyDate]

RecentOffsetDate == PubDate("offset", ClockNow - 1 - 5, 0 - 5)
OldOffsetDate == PubDate("offset", ClockNow - 72 - 5, 0 - 5)

NytItems ==
    {NytItem("t", HtmlSummary, "u1", RecentOffsetDate),
     NytItem("t", LongSummary, "u1", OldOffsetDate),
     NytItem("t", NoSummary, "u2", PubDate("Z", ClockNow - 96, 0)),
     NytItem(MissingKey, NoSummary, MissingKey, MissingDate)}

\* item.get(key, "")
ItemGet(value) == IF value = MissingKey THEN "" ELSE value
ItemGetDate(value) == IF value.kind = "missing" THEN EmptyDate ELSE value

\* what one GET of a section does: the exception requests.get, raise_for_status
\* or response.json raises, or the decoded body
NytResponse(exc, body, results) == [exc |-> exc, body |-> body, results |-> results]

RECURSIVE SeqsUpTo(_, _)
SeqsUpTo(S, n) ==
    IF n = 0 THEN {<<>>}
    ELSE LET shorter == SeqsUpTo(S, n - 1) IN
         shorter \cup {Append(s, x) : s \in {t \in shorter : Len(t) = n - 1}, x \in S}

Min(a, b) == IF a < b THEN a ELSE b

NytResponses(room) ==
    {NytResponse(e, "none", <<>>) : e \in {"ConnectionError", "HTTPError", "JSONDecodeError"}}
    \cup {NytResponse(NoException, "array", <<>>), NytResponse(NoException, "results null", <<>>)}
    \cup {NytResponse(NoException, "object", r) :
             r \in SeqsUpTo(NytItems \cup {NotAnObject}, Min(MaxItems, room))}

\* one feed entry; published_parsed is absent, a UTC hour, or a tuple datetime() rejects
FeedEntry(title, summary, link, published, parsed, hour) ==
    [title |-> title, summary |-> summary, link |-> link, published |-> published,
     published_parsed |-> parsed, hour |-> hour]

FeedEntries ==
    {FeedEntry("t", HtmlSummary, "u1", TextDate, "valid", ClockNow - 2),
     FeedEntry("t", LongSummary, "u2", TextDate, "valid", ClockNow - 72),
     FeedEntry("t", HtmlSummary, "u3", TextDate, "absent", 0),
     FeedEntry("t", LongSummary, "", EmptyDate, "absent", 0),
     FeedEntry("t", HtmlSummary, "u3", TextDate, "invalid", 0)}

\* what feedparser.parse does for one feed: raises, or returns entries (none for a
\* feed that could not be fetched or parsed)
FeedResponse(exc, entries) == [exc |-> exc, entries |-> entries]

FeedResponses(room) ==
    {FeedResponse("OSError", <<>>)}
    \cup {FeedResponse(NoException, r) : r \in SeqsUpTo(FeedEntries, Min(MaxItems, room))}

-----------------------------------------------------------------------------
(* fetch_articles.py: the adapters, one loop iteration (one upstream unit) each *)

\* the for loop over data.get("results", [])
RECURSIVE NytItemsLoop(_, _, _, _)
NytItemsLoop(articles, section, results, i) ==
    IF i > Len(results)
    THEN [exc |-> NoException, articles |-> articles]
    ELSE LET item == results[i] IN
         IF ~item.object
         THEN [exc |-> "AttributeError", articles |-> articles]
         ELSE NytItemsLoop(
                  Append(articles,
                         Article("NYT", section, ItemGet(item.title), item.abstract,
                                 ItemGet(item.url), ItemGetDate(item.published_date))),
                  section, results, i + 1)

\* the try body of fetch_nyt_articles for one section
NytTryBody(articles, section, resp) ==
    IF resp.exc # NoException THEN [exc |-> resp.exc, articles |-> articles]
    ELSE IF resp.body = "array" THEN [exc |-> "AttributeError", articles |-> articles]
    ELSE IF resp.body = "results null" THEN [exc |-> "TypeError", articles |-> articles]
    ELSE NytItemsLoop(articles, section, resp.results, 1)

\* the try statement with its two except clauses: the exception it lets through
NytSection(articles, section, resp) ==
    LET r == NytTryBody(articles, section, resp) IN
    IF r.exc # NoException
       /\ (IsSubclass(r.exc, "RequestException") \/ IsSubclass(r.exc, "JSONDecodeError"))
    THEN [exc |-> NoException, articles |-> r.articles]
    ELSE r

\* published for one entry: the raw text, or the ISO string of published_parsed
EntryPublished(entry) ==
    IF entry.published_parsed = "absent"
    THEN [exc |-> NoException, published |-> entry.published]
    ELSE IF entry.published_parsed = "invalid"
    THEN [exc |-> "ValueError", published |-> entry.published]
    ELSE [exc |-> NoException, published |-> PubDate("naive", entry.hour, 0)]

RECURSIVE BloombergEntriesLoop(_, _, _, _)
BloombergEntriesLoop(articles, section, entries, i) ==
    IF i > Len(entries)
    THEN [exc |-> NoException, articles |-> articles]
    ELSE LET entry == entries[i]
             p == EntryPublished(entry) IN
         IF p.exc # NoException
         THEN [exc |-> p.exc, articles |-> articles]
         ELSE BloombergEntriesLoop(
                  Append(articles,
                         Article("Bloomberg", section, entry.title, entry.summary,
                                 entry.link, p.published)),
                  section, entries, i + 1)

RECURSIVE GuardianEntriesLoop(_, _, _, _)
GuardianEntriesLoop(articles, section, entries, i) ==
    IF i > Len(entries)
    THEN [exc |-> NoException, articles |-> articles]
    ELSE LET entry == entries[i]
             p == EntryPublished(entry) IN
         IF p.exc # NoException
         THEN [exc |-> p.exc, articles |-> articles]
         ELSE GuardianEntriesLoop(
                  Append(articles,
                         Article("Guardian", section, entry.title,
                                 Truncate(StripTags(entry.summary)), entry.link, p.published)),
                  section, entries, i + 1)

\* the try statement of fetch_bloomberg_articles for one feed: except Exception
BloombergFeed(articles, feed_url, resp) ==
    LET r == IF resp.exc # NoException
             THEN [exc |-> resp.exc, articles |-> articles]
             ELSE BloombergEntriesLoop(articles, _extract_section_from_url(feed_url),
                                       resp.entries, 1) IN
    IF r.exc # NoException /\ IsSubclass(r.exc, "Exception")
    THEN [exc |-> NoException, articles |-> r.articles]
    ELSE r

\* the try statement of fetch_guardian_articles for one feed: except Exception
GuardianFeed(articles, feed_url, resp) ==
    LET r == IF resp.exc # NoException
             THEN [exc |-> resp.exc, articles |-> articles]
             ELSE GuardianEntriesLoop(articles, _extract_guardian_section(feed_url),
                                      resp.entries, 1) IN
    IF r.exc # NoException /\ IsSubclass(r.exc, "Exception")
    THEN [exc |-> NoException, articles |-> r.articles]
    ELSE r

-----------------------------------------------------------------------------
(* Files *)

\* a JSON file: absent, not JSON, a JSON array, or a JSON object with or without
\* the key "articles"
JsonFile(exists, kind, total_count, articles) ==
    [exists |-> exists, kind |-> kind, fetched_at |-> 0, total_count |-> total_count,
     articles |-> articles]
NoJsonFile == JsonFile(FALSE, "none", 0, <<>>)

\* a text: chunks, each the first len characters of a named source text
Chunk(src, len) == [src |-> src, len |-> len]
TextFile(exists, text) == [exists |-> exists, text |-> text]
NoTextFile == TextFile(FALSE, <<>>)

-----------------------------------------------------------------------------
(* fetch_articles.py: main *)

\* the default paths of the three stages
DEFAULT_INPUT_PATH == "/tmp/today_articles.json"
DEFAULT_PROMPT_PATH == "prompt.txt"
DEFAULT_SELECTED_PATH == "/tmp/selected.md"

\* an option that was not given
NotGiven == <<Chunk("<None>", 0)>>

\* before a stage is started
NotInvoked ==
    [fetch |-> [NYT_API_KEY |-> None, hours |-> DEFAULT_HOURS],
     select |-> [ANTHROPIC_API_KEY |-> None, input |-> DEFAULT_INPUT_PATH,
                 prompt |-> DEFAULT_PROMPT_PATH],
     post |-> [SLACK_WEBHOOK_URL |-> None, error |-> NotGiven, message |-> NotGiven,
               input |-> DEFAULT_SELECTED_PATH]]

FetchInit ==
    [pc |-> "init", exit |-> NotExited, raised |-> NoException,
     idx |-> 1, articles |-> <<>>,
     nyt_articles |-> <<>>, bloomberg_articles |-> <<>>, guardian_articles |-> <<>>,
     all_articles |-> <<>>, filtered |-> <<>>, unique |-> <<>>]

\* the process has ended: its memory is gone, its exit status stays
FetchExited(code, exc) == [FetchInit EXCEPT !.pc = "exited", !.exit = code, !.raised = exc]

\* a later stage has started: of this one only the files it wrote are left
FetchOver == [FetchInit EXCEPT !.pc = "over"]

Idle(stage) == stage.pc \in {"init", "exited", "over"}

NoRequests == [fetch |-> 0, select |-> 0, post |-> 0]

HourArgs == {DEFAULT_HOURS, 96}

\* what the upstream units may still hand out in this run
Room == quota - Len(fetch.all_articles) - Len(fetch.articles)

\* main up to the credential check
FetchStart ==
    /\ fetch.pc = "init" /\ select.pc = "init" /\ post.pc = "init"
    /\ \E key \in EnvValues, hours \in HourArgs :
          /\ invoked' = [invoked EXCEPT !.fetch = [NYT_API_KEY |-> key, hours |-> hours]]
          /\ fetch' = IF Falsy(key) THEN FetchExited(1, NoException)
                      ELSE [fetch EXCEPT !.pc = "nyt"]
    /\ UNCHANGED <<fnVars, quota, select, post, files, net, writes, sent>>

\* fetch_nyt_articles: one section; after the last, main extends all_articles
FetchNytSection ==
    /\ fetch.pc = "nyt"
    /\ \E resp \in NytResponses(Room) :
          LET r == NytSection(fetch.articles, NYT_SECTIONS[fetch.idx], resp) IN
          fetch' = IF r.exc # NoException THEN FetchExited(1, r.exc)
                   ELSE IF fetch.idx < Len(NYT_SECTIONS)
                   THEN [fetch EXCEPT !.articles = r.articles, !.idx = @ + 1]
                   ELSE [fetch EXCEPT !.articles = <<>>, !.idx = 1, !.pc = "bloomberg",
                                      !.nyt_articles = r.articles,
                                      !.all_articles = @ \o r.articles]
    /\ net' = [net EXCEPT !.fetch = @ + 1]
    /\ UNCHANGED <<fnVars, quota, select, post, invoked, files, writes, sent>>

\* fetch_bloomberg_articles: one feed
FetchBloombergFeed ==
    /\ fetch.pc = "bloomberg"
    /\ \E resp \in FeedResponses(Room) :
          LET r == BloombergFeed(fetch.articles, BLOOMBERG_FEEDS[fetch.idx], resp) IN
          fetch' = IF r.exc # NoException THEN FetchExited(1, r.exc)
                   ELSE IF fetch.idx < Len(BLOOMBERG_FEEDS)
                   THEN [fetch EXCEPT !.articles = r.articles, !.idx = @ + 1]
                   ELSE [fetch EXCEPT !.articles = <<>>, !.idx = 1, !.pc = "guardian",
                                      !.bloomberg_articles = r.articles,
                                      !.all_articles = @ \o r.articles]
    /\ net' = [net EXCEPT !.fetch = @ + 1]
    /\ UNCHANGED <<fnVars, quota, select, post, invoked, files, writes, sent>>

\* fetch_guardian_articles: one feed
FetchGuardianFeed ==
    /\ fetch.pc = "guardian"
    /\ \E resp \in FeedResponses(Room) :
          LET r == GuardianFeed(fetch.articles, GUARDIAN_FEEDS[fetch.idx], resp) IN
          fetch' = IF r.exc # NoException THEN FetchExited(1, r.exc)
                   ELSE IF fetch.idx < Len(GUARDIAN_FEEDS)
                   THEN [fetch EXCEPT !.articles = r.articles, !.idx = @ + 1]
                   ELSE [fetch EXCEPT !.articles = <<>>, !.idx = 1, !.pc = "filter",
                                      !.guardian_articles = r.articles,
                                      !.all_articles = @ \o r.articles]
    /\ net' = [net EXCEPT !.fetch = @ + 1]
    /\ UNCHANGED <<fnVars, quota, select, post, invoked, files, writes, sent>>

\* filtered = filter_recent_articles(all_articles, hours=args.hours)
FetchFilter ==
    /\ fetch.pc = "filter"
    /\ LET r == filter_recent_articles(fetch.all_articles, invoked.fetch.hours, ClockNow) IN
       fetch' = IF r.exc # NoException THEN FetchExited(1, r.exc)
                ELSE [fetch EXCEPT !.filtered = r.ret, !.pc = "dedup"]
    /\ UNCHANGED <<fnVars, quota, select, post, invoked, files, net, writes, sent>>

\* unique = deduplicate_articles(filtered)
FetchDedup ==
    /\ fetch.pc = "dedup"
    /\ fetch' = [fetch EXCEPT !.unique = deduplicate_articles(fetch.filtered), !.pc = "write"]
    /\ UNCHANGED <<fnVars, quota, select, post, invoked, files, net, writes, sent>>

\* output_data and json.dump
FetchWrite ==
    /\ fetch.pc = "write"
    /\ files' = [files EXCEPT !.articles =
                    [JsonFile(TRUE, "object", Len(fetch.unique), fetch.unique)
                        EXCEPT !.fetched_at = ClockNow]]
    /\ writes' = [writes EXCEPT !.fetch = @ + 1]
    /\ fetch' = [fetch EXCEPT !.pc = "written"]
    /\ UNCHANGED <<fnVars, quota, select, post, invoked, net, sent>>

\* main returns
FetchReturn ==
    /\ fetch.pc = "written"
    /\ fetch' = FetchExited(0, NoException)
    /\ UNCHANGED <<fnVars, quota, select, post, invoked, files, net, writes, sent>>

-----------------------------------------------------------------------------
(* Texts *)

NoText == <<>>

RECURSIVE TextLen(_)
TextLen(text) == IF text = <<>> THEN 0 ELSE Head(text).len + TextLen(Tail(text))

\* text[:n]
RECURSIVE Prefix(_, _)
Prefix(text, n) ==
    IF text = <<>> \/ n <= 0 THEN <<>>
    ELSE IF Head(text).len <= n
    THEN <<Head(text)>> \o Prefix(Tail(text), n - Head(text).len)
    ELSE <<Chunk(Head(text).src, n)>>

\* not text.strip(): nothing but whitespace
IsBlank(text) == \A i \in 1..Len(text) : text[i].src = "whitespace" \/ text[i].len = 0

\* the source texts: what --message, --error, a selection file or the LLM may carry
ShortText == <<Chunk("short", 120)>>
BlankText == <<Chunk("whitespace", 3)>>
CapText == <<Chunk("cap", 39000)>>
LongText == <<Chunk("long", 39001)>>

\* ":warning: ..." written when there is nothing to select from
NoArticlesSentinel == <<Chunk("sentinel", 30)>>

-----------------------------------------------------------------------------
(* select_articles.py *)


InputPaths == {DEFAULT_INPUT_PATH, "missing.json", "garbage.json", "array.json", "object.json"}
PromptPaths == {DEFAULT_PROMPT_PATH, "missing.txt", "latin1.txt"}

\* the file behind a path given as --input
JsonAt(path) ==
    CASE path = DEFAULT_INPUT_PATH -> files.articles
      [] path = "garbage.json" -> JsonFile(TRUE, "invalid", 0, <<>>)
      [] path = "array.json" -> JsonFile(TRUE, "array", 0, <<>>)
      [] path = "object.json" -> JsonFile(TRUE, "object without articles", 0, <<>>)
      [] OTHER -> NoJsonFile

\* load_articles and len(articles_data.get("articles", []))
LoadAndCount(file) ==
    CASE file.kind = "invalid" -> [exc |-> "JSONDecodeError", article_count |-> 0]
      [] file.kind = "array" -> [exc |-> "AttributeError", article_count |-> 0]
      [] file.kind = "object without articles" -> [exc |-> NoException, article_count |-> 0]
      [] OTHER -> [exc |-> NoException, article_count |-> Len(file.articles)]

\* load_prompt
LoadPrompt(path) == IF path = "latin1.txt" THEN "UnicodeDecodeError" ELSE NoException

\* the except clauses of main catch everything, sys.exit included
SelectExcept_bare(exc, code) == 1

\* the three except clauses around the body of main: the exit status of the process
\* when exc (SystemExit carrying code) leaves the try body
SelectExcept(exc, code) ==
    IF IsSubclass(exc, "APIError") THEN 1
    ELSE IF IsSubclass(exc, "JSONDecodeError") THEN 1
    ELSE IF IsSubclass(exc, "Exception") THEN 1
    ELSE IF exc = "SystemExit" THEN code
    ELSE 1

\* response.content: blocks, of which the text blocks are concatenated
Block(type, text) == [type |-> type, text |-> text]

LlmContents ==
    {<<>>, <<Block("text", ShortText)>>, <<Block("tool_use", NoText), Block("text", ShortText)>>,
     <<Block("text", CapText), Block("text", ShortText)>>, <<Block("text", BlankText)>>}

RECURSIVE JoinTextBlocks(_)
JoinTextBlocks(content) ==
    IF content = <<>> THEN <<>>
    ELSE (IF Head(content).type = "text" THEN Head(content).text ELSE <<>>)
         \o JoinTextBlocks(Tail(content))

SelectInit == [pc |-> "init", exit |-> NotExited, article_count |-> 0]
SelectExited(code) == [SelectInit EXCEPT !.pc = "exited", !.exit = code]
SelectOver == [SelectInit EXCEPT !.pc = "over"]

\* main up to the three checks before the try statement
SelectStart ==
    /\ select.pc = "init" /\ Idle(fetch) /\ post.pc = "init"
    /\ fetch' = FetchOver
    /\ net' = NoRequests
    /\ writes' = NoRequests
    /\ \E key \in EnvValues, input \in InputPaths, prompt \in PromptPaths :
          /\ invoked' = [NotInvoked EXCEPT !.select =
                            [ANTHROPIC_API_KEY |-> key, input |-> input, prompt |-> prompt]]
          /\ select' = IF Falsy(key) THEN SelectExited(1)
                       ELSE IF ~JsonAt(input).exists THEN SelectExited(1)
                       ELSE IF prompt = "missing.txt" THEN SelectExited(1)
                       ELSE [select EXCEPT !.pc = "load"]
    /\ UNCHANGED <<fnVars, quota, post, files, sent>>

\* the try body up to the zero-articles branch
SelectLoad ==
    /\ select.pc = "load"
    /\ LET r == LoadAndCount(JsonAt(invoked.select.input)) IN
       IF r.exc # NoException
       THEN /\ select' = SelectExited(SelectExcept(r.exc, 0))
            /\ UNCHANGED <<fnVars, quota, files, writes>>
       ELSE IF r.article_count = 0
       THEN /\ files' = [files EXCEPT !.selected = TextFile(TRUE, NoArticlesSentinel)]
            /\ writes' = [writes EXCEPT !.select = @ + 1]
            /\ select' = SelectExited(SelectExcept("SystemExit", 0))
       ELSE /\ select' = [select EXCEPT !.pc = "prompt", !.article_count = r.article_count]
            /\ UNCHANGED <<fnVars, quota, files, writes>>
    /\ UNCHANGED <<fnVars, quota, fetch, post, invoked, net, sent>>

\* prompt_template = load_prompt(args.prompt)
SelectPrompt ==
    /\ select.pc = "prompt"
    /\ LET exc == LoadPrompt(invoked.select.prompt) IN
       select' = IF exc # NoException THEN SelectExited(SelectExcept(exc, 0))
                 ELSE [select EXCEPT !.pc = "call"]
    /\ UNCHANGED <<fnVars, quota, fetch, post, invoked, files, net, writes, sent>>

\* select_articles_with_claude and the write of its result
SelectCall ==
    /\ select.pc = "call"
    /\ net' = [net EXCEPT !.select = @ + 1]
    /\ \/ \E exc \in {"APIError", "TypeError"} :
             /\ select' = SelectExited(SelectExcept(exc, 0))
             /\ UNCHANGED <<fnVars, quota, files, writes>>
       \/ \E content \in LlmContents :
             /\ files' = [files EXCEPT !.selected = TextFile(TRUE, JoinTextBlocks(content))]
             /\ writes' = [writes EXCEPT !.select = @ + 1]
             /\ select' = SelectExited(0)
    /\ UNCHANGED <<fnVars, quota, fetch, post, invoked, sent>>

-----------------------------------------------------------------------------
(* post_to_slack.py *)

MAX_LENGTH == 39000

TruncationNotice == <<Chunk("notice", 25)>>

\* a cut without the notice
CapMessage_noNotice(message) ==
    IF TextLen(message) > MAX_LENGTH THEN Prefix(message, MAX_LENGTH) ELSE message

\* the length cap of main
CapMessage(message) ==
    IF TextLen(message) > MAX_LENGTH
    THEN Prefix(message, MAX_LENGTH) \o TruncationNotice
    ELSE message

\* the message post_error_to_slack builds
ErrorMessage(error_message) ==
    <<Chunk("error header", 45)>> \o error_message \o <<Chunk("error footer", 4)>>

SelectedPaths == {DEFAULT_SELECTED_PATH, "missing.md", "long.md"}

TextAt(path) ==
    CASE path = DEFAULT_SELECTED_PATH -> files.selected
      [] path = "long.md" -> TextFile(TRUE, LongText \o ShortText)
      [] OTHER -> NoTextFile


\* `if option:`
Given(option) == TextLen(option) > 0

MessageArgs == {NotGiven, NoText, ShortText, BlankText, CapText, LongText}
ErrorArgs == {NotGiven, ShortText}

PostInit == [pc |-> "init", exit |-> NotExited, message |-> NoText]
PostExited(code) == [PostInit EXCEPT !.pc = "exited", !.exit = code]

\* main up to the call of post_to_slack or post_error_to_slack
PostStart ==
    /\ post.pc = "init" /\ Idle(fetch) /\ Idle(select)
    /\ fetch' = FetchOver
    /\ select' = SelectOver
    /\ net' = NoRequests
    /\ writes' = NoRequests
    /\ \E url \in EnvValues, error \in ErrorArgs, message \in MessageArgs,
          input \in SelectedPaths :
          /\ invoked' = [NotInvoked EXCEPT !.post =
                            [SLACK_WEBHOOK_URL |-> url, error |-> error, message |-> message,
                             input |-> input]]
          /\ post' =
               IF Falsy(url) THEN PostExited(1)
               ELSE IF Given(error)
               THEN [post EXCEPT !.pc = "send error", !.message = ErrorMessage(error)]
               ELSE IF ~Given(message) /\ ~TextAt(input).exists THEN PostExited(1)
               ELSE LET text == IF Given(message) THEN message ELSE TextAt(input).text IN
                    IF IsBlank(text) THEN PostExited(0)
                    ELSE [post EXCEPT !.pc = "send", !.message = CapMessage(text)]
    /\ UNCHANGED <<fnVars, quota, files, sent>>

\* post_to_slack: the POST and the exit status main derives from its result
PostSend ==
    /\ post.pc \in {"send", "send error"}
    /\ net' = [net EXCEPT !.post = @ + 1]
    /\ sent' = Append(sent, post.message)
    /\ \E success \in BOOLEAN : post' = PostExited(IF success THEN 0 ELSE 1)
    /\ UNCHANGED <<fnVars, quota, fetch, select, invoked, files, writes>>

-----------------------------------------------------------------------------
(* The initial state of the stages *)

PipeIdle ==
    /\ fetch = FetchInit
    /\ select = SelectInit
    /\ post = PostInit
    /\ invoked = NotInvoked
    /\ files = [articles |-> NoJsonFile, selected |-> NoTextFile]
    /\ net = NoRequests
    /\ writes = NoRequests
    /\ sent = <<>>

-----------------------------------------------------------------------------
(* Function-level harness: one call of filter_recent_articles, or one call *)
(* of deduplicate_articles followed by a second call on its result.        *)

Ages == {0, 47, 48, 49, 72, 96, 97}
FnHours == {0, DEFAULT_HOURS, 96}

\* the strings that spell the instant `age` hours before ClockNow
DatesOfAge(age) ==
    {PubDate("naive", ClockNow - age, 0), PubDate("Z", ClockNow - age, 0),
     PubDate("offset", ClockNow - age + 9, 9), PubDate("offset", ClockNow - age - 5, 0 - 5)}

FnDates == {MissingDate, EmptyDate, TextDate} \cup UNION {DatesOfAge(age) : age \in Ages}

FnUrls == {MissingKey, "", "u1", "u2", "u3", "u4"}

FnIdle ==
    /\ fnPc = "input"
    /\ fnArticles = <<>>
    /\ fnNow = ClockNow
    /\ fnOut = [exc |-> NoException, ret |-> <<>>]
    /\ fnOut2 = <<>>

InitFilter ==
    /\ PipeIdle
    /\ quota = 0
    /\ FnIdle
    /\ fnHours \in FnHours

InitDedup ==
    /\ PipeIdle
    /\ quota = 0
    /\ FnIdle
    /\ fnHours = DEFAULT_HOURS

\* the caller builds its list: the i-th article has title i, so that positions can
\* be told apart
FilterInput ==
    /\ fnPc = "input"
    /\ Len(fnArticles) < MaxFilterLen
    /\ \E d \in FnDates :
          fnArticles' = Append(fnArticles,
                               Article("NYT", "world", Len(fnArticles) + 1, NoSummary, "u1", d))
    /\ UNCHANGED <<fnPc, fnHours, fnNow, fnOut, fnOut2, pipeVars>>

DedupInput ==
    /\ fnPc = "input"
    /\ Len(fnArticles) < MaxDedupLen
    /\ \E u \in FnUrls :
          fnArticles' = Append(fnArticles,
                               Article("NYT", "world", Len(fnArticles) + 1, NoSummary, u,
                                       EmptyDate))
    /\ UNCHANGED <<fnPc, fnHours, fnNow, fnOut, fnOut2, pipeVars>>

CallFilter ==
    /\ fnPc = "input"
    /\ fnOut' = filter_recent_articles(fnArticles, fnHours, fnNow)
    /\ fnPc' = "filtered"
    /\ UNCHANGED <<fnArticles, fnHours, fnNow, fnOut2, pipeVars>>

CallDedup ==
    /\ fnPc = "input"
    /\ fnOut' = [exc |-> NoException, ret |-> deduplicate_articles(fnArticles)]
    /\ fnPc' = "deduped"
    /\ UNCHANGED <<fnArticles, fnHours, fnNow, fnOut2, pipeVars>>

CallDedupAgain ==
    /\ fnPc = "deduped"
    /\ fnOut2' = deduplicate_articles(fnOut.ret)
    /\ fnPc' = "deduped twice"
    /\ UNCHANGED <<fnArticles, fnHours, fnNow, fnOut, pipeVars>>

NextFilter == FilterInput \/ CallFilter
NextDedup == DedupInput \/ CallDedup \/ CallDedupAgain

SpecFilter == InitFilter /\ [][NextFilter]_vars
SpecDedup == InitDedup /\ [][NextDedup]_vars

FnUnused == FnIdle /\ fnHours = DEFAULT_HOURS

\* the fetch stage alone
InitFetch == PipeIdle /\ FnUnused /\ quota = MaxFetched

NextFetch ==
    \/ FetchStart
    \/ FetchNytSection
    \/ FetchBloombergFeed
    \/ FetchGuardianFeed
    \/ FetchFilter
    \/ FetchDedup
    \/ FetchWrite
    \/ FetchReturn

SpecFetch == InitFetch /\ [][NextFetch]_vars

\* the three stages in the order of the pipeline, each run at most once
Init == PipeIdle /\ FnUnused /\ quota = MaxPipelineFetched

Next ==
    \/ FetchStart
    \/ FetchNytSection
    \/ FetchBloombergFeed
    \/ FetchGuardianFeed
    \/ FetchFilter
    \/ FetchDedup
    \/ FetchWrite
    \/ FetchReturn
    \/ SelectStart
    \/ SelectLoad
    \/ SelectPrompt
    \/ SelectCall
    \/ PostStart
    \/ PostSend

Spec == Init /\ [][Next]_vars

-----------------------------------------------------------------------------
(* Properties of deduplicate_articles (under SpecDedup) *)

HasNoUrl(a) == a.url \in {"", MissingKey}
HasUrl(a) == ~HasNoUrl(a)

\* the indices of the first article carrying each distinct non-empty url
FirstOccurrences(s) ==
    {i \in 1..Len(s) : HasUrl(s[i]) /\ \A j \in 1..(i - 1) : s[j].url # s[i].url}

\* the articles of s at the indices of idx, in the order of s
RECURSIVE AtIndices(_, _, _)
AtIndices(s, idx, i) ==
    IF i > Len(s) THEN <<>>
    ELSE (IF i \in idx THEN <<s[i]>> ELSE <<>>) \o AtIndices(s, idx, i + 1)

\* C1: deduplicate_articles never removes an article whose url is empty or
\* missing: the empty-url articles of the output are those of the input, as many
\* and in the same order.
C1_EmptyUrlRetained ==
    fnPc = "deduped" => SelectSeq(fnOut.ret, HasNoUrl) = SelectSeq(fnArticles, HasNoUrl)

\* C4: for each distinct non-empty url the output holds exactly the first article
\* carrying it, in input order, so no non-empty url occurs twice; five articles
\* of which the second and fourth share a url give the first, second, third and
\* fifth.
C4_FirstOccurrenceWins ==
    fnPc = "deduped" =>
        /\ SelectSeq(fnOut.ret, HasUrl) = AtIndices(fnArticles, FirstOccurrences(fnArticles), 1)
        /\ \A i, j \in 1..Len(fnOut.ret) :
               (i # j /\ HasUrl(fnOut.ret[i])) => fnOut.ret[i].url # fnOut.ret[j].url
        /\ ( /\ Len(fnArticles) = 5
             /\ \A i \in 1..5 : HasUrl(fnArticles[i])
             /\ \A i, j \in 1..5 :
                    (i < j /\ fnArticles[i].url = fnArticles[j].url) => (i = 2 /\ j = 4)
             /\ fnArticles[2].url = fnArticles[4].url )
           => fnOut.ret = <<fnArticles[1], fnArticles[2], fnArticles[3], fnArticles[5]>>

C4_Witness ==
    /\ fnPc = "deduped"
    /\ Len(fnArticles) = 5
    /\ \A i \in 1..5 : HasUrl(fnArticles[i])
    /\ fnArticles[2].url = fnArticles[4].url
    /\ Len(fnOut.ret) = 4
    /\ fnOut.ret[2] = fnArticles[2]
    /\ fnOut.ret[4] = fnArticles[5]

\* C5: deduplicate_articles is idempotent: applied to its own result it returns
\* that result.
C5_Idempotent == fnPc = "deduped twice" => fnOut2 = fnOut.ret

C5_Witness ==
    /\ fnPc = "deduped twice"
    /\ \E i \in 1..Len(fnArticles) : HasNoUrl(fnArticles[i])
    /\ \E i, j \in 1..Len(fnArticles) : i < j /\ HasUrl(fnArticles[i])
                                         /\ fnArticles[i].url = fnArticles[j].url
    /\ Len(fnOut.ret) >= 2
    /\ fnOut2 = fnOut.ret

-----------------------------------------------------------------------------
(* Properties of filter_recent_articles (under SpecFilter) *)

\* a published_date that is absent, empty, or not ISO-8601
Unparsed(a) == a.published_date.kind \in {"missing", "empty", "text"}
Parsed(a) == ~Unparsed(a)

\* the UTC hour a valid published_date denotes: no zone and Z mean UTC
InstantOf(a) ==
    IF a.published_date.kind = "offset"
    THEN a.published_date.local - a.published_date.off
    ELSE a.published_date.local

InWindow(a) == Parsed(a) /\ InstantOf(a) >= fnNow - fnHours

\* C2: filter_recent_articles is fail-open: whatever the window, it raises
\* nothing and every article whose published_date is empty or does not parse
\* is in the output.
C2_FailOpen ==
    fnPc = "filtered" =>
        /\ fnOut.exc = NoException
        /\ SelectSeq(fnOut.ret, Unparsed) = SelectSeq(fnArticles, Unparsed)

C2_Witness ==
    /\ fnPc = "filtered"
    /\ fnHours = 0
    /\ Len(fnArticles) = 2
    /\ fnArticles[1].published_date = TextDate
    /\ fnArticles[2].published_date = EmptyDate
    /\ fnOut.ret = fnArticles

\* C3: an article whose published_date parses is kept iff its instant is >= now
\* minus the window; the instant equal to the cutoff is kept; an article 72
\* hours old is removed with a 48-hour window and kept with a 96-hour window.
C3_KeptIffInWindow ==
    fnPc = "filtered" =>
        /\ SelectSeq(fnOut.ret, Parsed) = SelectSeq(fnArticles, InWindow)
        /\ \A i \in 1..Len(fnArticles) :
               LET a == fnArticles[i]
                   kept == \E j \in 1..Len(fnOut.ret) : fnOut.ret[j] = a
               IN  /\ (Parsed(a) /\ InstantOf(a) = fnNow - fnHours) => kept
                   /\ (Parsed(a) /\ InstantOf(a) = fnNow - 72 /\ fnHours = 48) => ~kept
                   /\ (Parsed(a) /\ InstantOf(a) = fnNow - 72 /\ fnHours = 96) => kept

C3_Witness ==
    /\ fnPc = "filtered"
    /\ fnHours = 48
    /\ Len(fnArticles) = 2
    /\ fnArticles[1].published_date.kind = "naive"
    /\ InstantOf(fnArticles[1]) = fnNow - 72
    /\ fnArticles[2].published_date.kind = "Z"
    /\ InstantOf(fnArticles[2]) = fnNow - 48
    /\ fnOut.ret = <<fnArticles[2]>>

-----------------------------------------------------------------------------
(* Properties of the fetch stage (under SpecFetch) *)

\* a credential that is unset or empty
Absent(value) == value \in {None, ""}

\* C6: a source adapter never raises to its caller and one failing unit leaves
\* the others alone: a run that has its credential issues all nine requests
\* and ends with status 0, whatever the sections and feeds answer.
C6_AdaptersNeverRaise ==
    (fetch.pc = "exited" /\ ~Absent(invoked.fetch.NYT_API_KEY)) =>
        /\ fetch.raised = NoException
        /\ fetch.exit = 0
        /\ net.fetch = Len(NYT_SECTIONS) + Len(BLOOMBERG_FEEDS) + Len(GUARDIAN_FEEDS)

\* s is t with some elements left out
RECURSIVE IsSubseq(_, _)
IsSubseq(s, t) ==
    IF s = <<>> THEN TRUE
    ELSE IF t = <<>> THEN FALSE
    ELSE IF Head(s) = Head(t) THEN IsSubseq(Tail(s), Tail(t))
    ELSE IsSubseq(s, Tail(t))

AdapterOutputs == fetch.nyt_articles \o fetch.bloomberg_articles \o fetch.guardian_articles

\* C10: the filter and the deduplicator only leave articles out: the written
\* list is the deduplicator's output, a subsequence of the filter's output,
\* itself a subsequence of the NYT, Bloomberg and Guardian outputs in that
\* order, every article as its adapter made it; total_count is its length.
C10_OnlyRemoves ==
    /\ fetch.pc \in {"filter", "dedup", "write", "written"} =>
           fetch.all_articles = AdapterOutputs
    /\ fetch.pc \in {"dedup", "write", "written"} =>
           IsSubseq(fetch.filtered, fetch.all_articles)
    /\ fetch.pc \in {"write", "written"} =>
           IsSubseq(fetch.unique, fetch.filtered)
    /\ fetch.pc = "written" =>
           /\ files.articles.exists
           /\ files.articles.articles = fetch.unique
           /\ IsSubseq(files.articles.articles, AdapterOutputs)
           /\ files.articles.total_count = Len(files.articles.articles)

C10_Witness ==
    /\ fetch.pc = "written"
    /\ fetch.nyt_articles # <<>>
    /\ fetch.guardian_articles # <<>>
    /\ Len(fetch.all_articles) = 3
    /\ Len(fetch.filtered) = 2
    /\ Len(files.articles.articles) = 1
    /\ files.articles.articles[1].published_date.kind = "offset"

-----------------------------------------------------------------------------
(* Properties of the three stages (under Spec) *)

\* a batch file with no articles in it
ZeroBatch(file) ==
    /\ file.exists
    /\ \/ file.kind = "object" /\ file.articles = <<>>
       \/ file.kind = "object without articles"

C7_Step ==
    /\ ( /\ fetch'.pc = "written"
         /\ fetch'.nyt_articles = <<>>
         /\ fetch'.bloomberg_articles = <<>>
         /\ fetch'.guardian_articles = <<>> )
       => /\ files'.articles.exists
          /\ files'.articles.kind = "object"
          /\ files'.articles.total_count = 0
          /\ files'.articles.articles = <<>>
    /\ (fetch.pc \in {"filter", "dedup", "write"} /\ fetch.all_articles = <<>>)
       => fetch'.pc \in {"dedup", "write", "written"}
    /\ ( /\ select.pc = "load"
         /\ select'.pc # "load"
         /\ ZeroBatch(JsonAt(invoked.select.input)) )
       => /\ select'.pc = "exited"
          /\ select'.exit = 0
          /\ files'.selected = TextFile(TRUE, NoArticlesSentinel)
          /\ net'.select = 0

\* C7: when every source yields nothing the fetch stage still writes a batch
\* with total_count 0 and no articles; a selection stage that reads a batch
\* with no articles writes the sentinel, exits 0 and never calls the LLM.
C7_ZeroArticles == [][C7_Step]_vars

C7_Witness ==
    /\ select.pc = "exited"
    /\ select.exit = 0
    /\ invoked.select.input = DEFAULT_INPUT_PATH
    /\ files.articles.exists
    /\ files.articles.total_count = 0
    /\ files.articles.articles = <<>>
    /\ files.selected = TextFile(TRUE, NoArticlesSentinel)
    /\ net.select = 0

\* the message main takes from --message or from the --input file
OriginalMessage ==
    IF TextLen(invoked.post.message) > 0
    THEN invoked.post.message
    ELSE TextAt(invoked.post.input).text

\* C8 as stated: no message taken from --input or --message reaches the webhook
\* longer than 39,000 characters.
C8_SentWithinCap ==
    TextLen(invoked.post.error) = 0 =>
        \A i \in 1..Len(sent) : TextLen(sent[i]) <= MAX_LENGTH

C8_Step ==
    (post.pc = "send" /\ post'.pc # "send") =>
        /\ Len(sent') = Len(sent) + 1
        /\ LET posted == sent'[Len(sent')] IN
           IF TextLen(OriginalMessage) <= MAX_LENGTH
           THEN posted = OriginalMessage
           ELSE /\ posted = Prefix(OriginalMessage, MAX_LENGTH) \o TruncationNotice
                /\ TextLen(posted) = MAX_LENGTH + 25

\* C8 amended: a message within 39,000 characters is posted unchanged; a longer
\* one is cut to its first 39,000 characters and the notice is appended after
\* them, so that 39,025 characters are posted.
C8_CutThenNotice == [][C8_Step]_vars

C8_Witness ==
    /\ post.pc = "exited"
    /\ TextLen(invoked.post.message) = 0
    /\ invoked.post.input = DEFAULT_SELECTED_PATH
    /\ TextLen(files.selected.text) > MAX_LENGTH
    /\ Len(sent) = 1
    /\ TextLen(sent[1]) = MAX_LENGTH + 25

C9_Step ==
    /\ (fetch.pc = "init" /\ fetch'.pc \notin {"init", "over"}
            /\ Absent(invoked'.fetch.NYT_API_KEY))
       => (fetch'.pc = "exited" /\ files' = files /\ sent' = sent)
    /\ (fetch'.pc = "exited" /\ Absent(invoked'.fetch.NYT_API_KEY))
       => (fetch'.exit > 0 /\ net'.fetch = 0 /\ writes'.fetch = 0)
    /\ (select.pc = "init" /\ select'.pc \notin {"init", "over"}
            /\ (Absent(invoked'.select.ANTHROPIC_API_KEY)
                    \/ ~JsonAt(invoked'.select.input).exists))
       => (select'.pc = "exited" /\ select'.exit > 0 /\ files' = files /\ sent' = sent)
    /\ (select'.pc = "exited" /\ Absent(invoked'.select.ANTHROPIC_API_KEY))
       => (select'.exit > 0 /\ net'.select = 0 /\ writes'.select = 0)
    /\ (select'.pc = "exited" /\ ~JsonAt(invoked'.select.input).exists)
       => (select'.exit > 0 /\ net'.select = 0 /\ writes'.select = 0)
    /\ (post.pc = "init" /\ post'.pc # "init" /\ Absent(invoked'.post.SLACK_WEBHOOK_URL))
       => (post'.pc = "exited" /\ files' = files /\ sent' = sent)
    /\ (post'.pc = "exited" /\ Absent(invoked'.post.SLACK_WEBHOOK_URL))
       => (post'.exit > 0 /\ net'.post = 0 /\ writes'.post = 0)

\* C9: a stage whose credential is unset or empty, and a selection stage whose
\* input file is missing, exits with a non-zero status having issued no
\* request and opened no file for writing.
C9_FailFast == [][C9_Step]_vars

C9_Witness ==
    /\ select.pc = "exited"
    /\ select.exit = 1
    /\ invoked.select.ANTHROPIC_API_KEY = ""
    /\ files.articles.exists
    /\ files.articles.total_count = 1
    /\ ~files.selected.exists
    /\ net.select = 0

=============================================================================
